---------------------------- MODULE Spec2Model ----------------------------
(***************************************************************************)
(* Unigma: a three-rotor Enigma simulator (rotors I, II, III, reflector B).*)
(* The model follows src/unigma.c: main, init_enigma, parse_arguments,     *)
(* set_rotor_positions, set_plugboard, run_enigma and its helpers.         *)
(*                                                                         *)
(* Characters are their ASCII codes.  A C string is the sequence of its    *)
(* bytes without the terminating NUL.  C arrays keep their 0-based indices:*)
(* positions, notch_positions and rotors are functions on 0..2 and 0..3.   *)
(***************************************************************************)
EXTENDS Integers, Sequences, FiniteSets, TLC

\* ------------------------------------------------------------------ bounds

\* Longest input stream enumerated exhaustively over InputBytes.
MaxInputLen == 2

\* Most options parse_arguments handles in one run (argc is unbounded in C).
MaxArgs == 2

\* ------------------------------------------------------- program constants

NUM_ROTORS == 3

NUM_ROTOR_WIRINGS == 4

ALPHABET_SIZE == 26

MAX_PLUGBOARD_LEN == 256

\* 'a' - 'A', the literal of "c -= 32"
CASE_OFFSET == 32

NUL == 0

SPACE == 32

chA == 65

chZ == 90

cha == 97

chz == 122

\* The wirings of rotors I, II, III and of reflector B
ROTOR_WIRINGS ==
    [i \in 0..(NUM_ROTOR_WIRINGS - 1) |->
        CASE i = 0 -> "EKMFLGDQVZNTOWYHXUSPAIBRCJ"
          [] i = 1 -> "AJDKSIRUXBLHWTMCQGZNPYFVOE"
          [] i = 2 -> "BDFHJLCPRTXVZNYEIWGAKMUSQO"
          [] i = 3 -> "YRUHQSLDPXNGOKMIEBFZCWVJAT"]

\* The bytes of a wiring string, as init_rotors copies them into
\* state->rotors[i].wiring.
wiring_bytes(w) ==
    CASE w = "EKMFLGDQVZNTOWYHXUSPAIBRCJ" ->
             <<69, 75, 77, 70, 76, 71, 68, 81, 86, 90, 78, 84, 79,
               87, 89, 72, 88, 85, 83, 80, 65, 73, 66, 82, 67, 74>>
      [] w = "AJDKSIRUXBLHWTMCQGZNPYFVOE" ->
             <<65, 74, 68, 75, 83, 73, 82, 85, 88, 66, 76, 72, 87,
               84, 77, 67, 81, 71, 90, 78, 80, 89, 70, 86, 79, 69>>
      [] w = "BDFHJLCPRTXVZNYEIWGAKMUSQO" ->
             <<66, 68, 70, 72, 74, 76, 67, 80, 82, 84, 88, 86, 90,
               78, 89, 69, 73, 87, 71, 65, 75, 77, 85, 83, 81, 79>>
      [] w = "YRUHQSLDPXNGOKMIEBFZCWVJAT" ->
             <<89, 82, 85, 72, 81, 83, 76, 68, 80, 88, 78, 71, 79,
               75, 77, 73, 69, 66, 70, 90, 67, 87, 86, 74, 65, 84>>

\* { 16, 4, 21 }: Q, E, V for rotors I, II, III
NOTCH_POSITIONS_INIT ==
    [i \in 0..(NUM_ROTORS - 1) |-> CASE i = 0 -> 16 [] i = 1 -> 4 [] i = 2 -> 21]

\* "ABCDEFGHIJKLMNOPQRSTUVWXYZ"
ALPHABET == <<65, 66, 67, 68, 69, 70, 71, 72, 73, 74, 75, 76, 77,
              78, 79, 80, 81, 82, 83, 84, 85, 86, 87, 88, 89, 90>>

\* ------------------------------------------------------------------ helpers

\* C's % on ints: the remainder takes the sign of the dividend.
c_rem(a, b) == IF a >= 0 THEN a % b ELSE 0 - ((0 - a) % b)

mod_positive(a) == c_rem(c_rem(a, ALPHABET_SIZE) + ALPHABET_SIZE, ALPHABET_SIZE)

\* The loop of idx: p is the 1-based place of the pointer.
RECURSIVE idx_from(_, _, _)
idx_from(s, c, p) ==
    IF p > Len(s) THEN -1
    ELSE IF s[p] = c THEN p - 1
    ELSE idx_from(s, c, p + 1)

\* Index of the first c in the string s, or -1.
idx(s, c) == idx_from(s, c, 1)

\* the fold with its lower bound off by one: 'a' is left as it is
to_upper_above_a(c) == IF c > cha /\ c <= chz THEN c - CASE_OFFSET ELSE c

\* "if (c >= 'a' && c <= 'z') c -= 32;"
to_upper(c) == IF c >= cha /\ c <= chz THEN c - CASE_OFFSET ELSE c

is_upper(c) == c >= chA /\ c <= chZ

\* encode_through_rotor taking the forward path in both directions
encode_through_rotor_forward_only(k, rotor_index, position, direction, wirings) ==
    LET i == mod_positive(k + position)
    IN  mod_positive(idx(ALPHABET, wiring_bytes(wirings[rotor_index])[i + 1]) - position)

\* encode_through_rotor entering the reverse path at contact k, the position
\* not added
encode_through_rotor_reverse_unshifted(k, rotor_index, position, direction, wirings) ==
    LET i == mod_positive(k + position)
    IN  IF direction = 0
        THEN mod_positive(idx(ALPHABET, wiring_bytes(wirings[rotor_index])[i + 1]) - position)
        ELSE mod_positive(idx(wiring_bytes(wirings[rotor_index]),
                              ALPHABET[mod_positive(k) + 1]) - position)

encode_through_rotor(k, rotor_index, position, direction, wirings) ==
    LET i == mod_positive(k + position)
    IN  IF direction = 0
        THEN mod_positive(idx(ALPHABET, wiring_bytes(wirings[rotor_index])[i + 1]) - position)
        ELSE mod_positive(idx(wiring_bytes(wirings[rotor_index]), ALPHABET[i + 1]) - position)

\* The byte at C index i of the plugboard buffer.  The buffer is kept as the
\* sequence of its bytes up to the last nonzero one; the rest of the 256
\* bytes is the zero fill of init_enigma's memset.
byte_at(buf, i) == IF i < Len(buf) THEN buf[i + 1] ELSE NUL

RECURSIVE skip_spaces(_, _)
skip_spaces(buf, ptr) ==
    IF byte_at(buf, ptr) = SPACE THEN skip_spaces(buf, ptr + 1) ELSE ptr

RECURSIVE plugboard_scan(_, _, _)
plugboard_scan(c, buf, ptr) ==
    IF byte_at(buf, ptr) = NUL THEN c
    ELSE IF c = byte_at(buf, ptr) /\ byte_at(buf, ptr + 1) # NUL
         THEN byte_at(buf, ptr + 1)
    ELSE IF c = byte_at(buf, ptr + 1) THEN byte_at(buf, ptr)
    ELSE plugboard_scan(c, buf, skip_spaces(buf, ptr + 2))

\* The scan pointer of apply_plugboard when it returns, as an index into the
\* buffer; the pointer never moves back, so no value it took is higher.
RECURSIVE plugboard_scan_end(_, _, _)
plugboard_scan_end(c, buf, ptr) ==
    IF byte_at(buf, ptr) = NUL THEN ptr
    ELSE IF c = byte_at(buf, ptr) /\ byte_at(buf, ptr + 1) # NUL THEN ptr
    ELSE IF c = byte_at(buf, ptr + 1) THEN ptr
    ELSE plugboard_scan_end(c, buf, skip_spaces(buf, ptr + 2))

apply_plugboard_end(c, buf) ==
    IF byte_at(buf, 0) = NUL THEN 0 ELSE plugboard_scan_end(c, buf, 0)

\* apply_plugboard matching the first letter of a pair only: the pair "AB"
\* takes A to B and leaves B
RECURSIVE plugboard_scan_first_only(_, _, _)
plugboard_scan_first_only(c, buf, ptr) ==
    IF byte_at(buf, ptr) = NUL THEN c
    ELSE IF c = byte_at(buf, ptr) /\ byte_at(buf, ptr + 1) # NUL
         THEN byte_at(buf, ptr + 1)
    ELSE plugboard_scan_first_only(c, buf, skip_spaces(buf, ptr + 2))

apply_plugboard_first_only(c, buf) ==
    IF byte_at(buf, 0) = NUL THEN c ELSE plugboard_scan_first_only(c, buf, 0)

apply_plugboard(c, buf) ==
    IF byte_at(buf, 0) = NUL THEN c ELSE plugboard_scan(c, buf, 0)

\* step_rotors with the right rotor's step in the last else branch: it steps
\* only when nothing is carried
step_rotors_right_in_else(pos, notch) ==
    IF pos[1] = notch[1]
    THEN [pos EXCEPT ![1] = mod_positive(pos[1] + 1),
                     ![2] = mod_positive(pos[2] + 1)]
    ELSE IF pos[0] = notch[0]
         THEN [pos EXCEPT ![1] = mod_positive(pos[1] + 1)]
         ELSE [pos EXCEPT ![0] = mod_positive(pos[0] + 1)]

\* step_rotors without the double step: a middle rotor at its notch carries
\* the left rotor and stays
step_rotors_no_double_step(pos, notch) ==
    LET p1 == IF pos[1] = notch[1]
              THEN [pos EXCEPT ![2] = mod_positive(pos[2] + 1)]
              ELSE IF pos[0] = notch[0]
                   THEN [pos EXCEPT ![1] = mod_positive(pos[1] + 1)]
                   ELSE pos
    IN  [p1 EXCEPT ![0] = mod_positive(p1[0] + 1)]

step_rotors(pos, notch) ==
    LET p1 == IF pos[1] = notch[1]
              THEN [pos EXCEPT ![1] = mod_positive(pos[1] + 1),
                               ![2] = mod_positive(pos[2] + 1)]
              ELSE IF pos[0] = notch[0]
                   THEN [pos EXCEPT ![1] = mod_positive(pos[1] + 1)]
                   ELSE pos
    IN  [p1 EXCEPT ![0] = mod_positive(p1[0] + 1)]

\* substitute without the reflector between the two rotor passes
substitute_no_reflector(c, pos, wirings, buf) ==
    LET c0 == apply_plugboard(c, buf) - chA
        c1 == encode_through_rotor(c0, 2, pos[0], 0, wirings)
        c2 == encode_through_rotor(c1, 1, pos[1], 0, wirings)
        c3 == encode_through_rotor(c2, 0, pos[2], 0, wirings)
        c5 == encode_through_rotor(c3, 0, pos[2], 1, wirings)
        c6 == encode_through_rotor(c5, 1, pos[1], 1, wirings)
        c7 == encode_through_rotor(c6, 2, pos[0], 1, wirings)
    IN  apply_plugboard(c7 + chA, buf)

\* substitute with the rotors in the wrong slots: rotor I at the right,
\* rotor III at the left
substitute_rotors_swapped(c, pos, wirings, buf) ==
    LET c0 == apply_plugboard(c, buf) - chA
        c1 == encode_through_rotor(c0, 0, pos[0], 0, wirings)
        c2 == encode_through_rotor(c1, 1, pos[1], 0, wirings)
        c3 == encode_through_rotor(c2, 2, pos[2], 0, wirings)
        c4 == idx(ALPHABET, wiring_bytes(wirings[3])[c3 + 1])
        c5 == encode_through_rotor(c4, 2, pos[2], 1, wirings)
        c6 == encode_through_rotor(c5, 1, pos[1], 1, wirings)
        c7 == encode_through_rotor(c6, 0, pos[0], 1, wirings)
    IN  apply_plugboard(c7 + chA, buf)

\* Lines 196-218: the substitution of one upper-case letter c at the
\* (already stepped) positions pos.
substitute(c, pos, wirings, buf) ==
    LET c0 == apply_plugboard(c, buf) - chA
        c1 == encode_through_rotor(c0, 2, pos[0], 0, wirings)
        c2 == encode_through_rotor(c1, 1, pos[1], 0, wirings)
        c3 == encode_through_rotor(c2, 0, pos[2], 0, wirings)
        c4 == idx(ALPHABET, wiring_bytes(wirings[3])[c3 + 1])
        c5 == encode_through_rotor(c4, 0, pos[2], 1, wirings)
        c6 == encode_through_rotor(c5, 1, pos[1], 1, wirings)
        c7 == encode_through_rotor(c6, 2, pos[0], 1, wirings)
    IN  apply_plugboard(c7 + chA, buf)

\* run_enigma's loop stepping the rotors on every byte, before the test for
\* a letter
run_enigma_char_steps_always(c, pos, notch, wirings, buf) ==
    LET u == to_upper(c)
        stepped == step_rotors(pos, notch)
    IN  IF ~is_upper(u)
        THEN [out |-> u, pos |-> stepped]
        ELSE [out |-> substitute(u, stepped, wirings, buf), pos |-> stepped]

\* run_enigma's loop stepping the rotors after the substitution: the letter
\* is enciphered at the positions it found
run_enigma_char_steps_after(c, pos, notch, wirings, buf) ==
    LET u == to_upper(c)
    IN  IF ~is_upper(u)
        THEN [out |-> u, pos |-> pos]
        ELSE [out |-> substitute(u, pos, wirings, buf),
              pos |-> step_rotors(pos, notch)]

\* run_enigma's loop with the test for a letter before the fold: a lower-case
\* letter is passed on as it is, without a step
run_enigma_char_test_before_fold(c, pos, notch, wirings, buf) ==
    IF ~is_upper(c)
    THEN [out |-> c, pos |-> pos]
    ELSE LET stepped == step_rotors(pos, notch)
         IN  [out |-> substitute(c, stepped, wirings, buf), pos |-> stepped]

\* One iteration of run_enigma's loop on the byte c: the byte put on stdout
\* and the positions after it.
run_enigma_char(c, pos, notch, wirings, buf) ==
    LET u == to_upper(c)
    IN  IF ~is_upper(u)
        THEN [out |-> u, pos |-> pos]
        ELSE LET stepped == step_rotors(pos, notch)
             IN  [out |-> substitute(u, stepped, wirings, buf), pos |-> stepped]

\* run_enigma on a whole stream: the bytes put on stdout.
RECURSIVE run_enigma(_, _, _, _, _)
run_enigma(stream, pos, notch, wirings, buf) ==
    IF stream = <<>> THEN <<>>
    ELSE LET r == run_enigma_char(Head(stream), pos, notch, wirings, buf)
         IN  <<r.out>> \o run_enigma(Tail(stream), r.pos, notch, wirings, buf)


\* ------------------------------------------------- configuration functions

\* set_rotor_positions checking the length alone
positions_accepted_length_only(s) == Len(s) = 3

\* The two checks of set_rotor_positions (lines 339-353); a failed check
\* ends the program with exit(1).
positions_accepted(s) ==
    /\ Len(s) = 3
    /\ \A i \in 1..3 : is_upper(to_upper(s[i]))

\* Lines 356-358: the string is Left-Middle-Right, the array Right-Middle-Left.
\* The stores use the characters of the string as given.
stored_positions(pos, s) ==
    [pos EXCEPT ![2] = s[1] - chA, ![1] = s[2] - chA, ![0] = s[3] - chA]

\* The one check of set_plugboard (lines 368-373).
plugboard_accepted(s) == Len(s) < MAX_PLUGBOARD_LEN

RECURSIVE trim_zeros(_)
trim_zeros(buf) ==
    IF buf # <<>> /\ buf[Len(buf)] = NUL
    THEN trim_zeros(SubSeq(buf, 1, Len(buf) - 1))
    ELSE buf

\* SAFE_STRCPY (lines 12-16) of the string s into the buffer.  Built with
\* UNIVAC it is strncpy, which fills the rest of the buffer with NULs; built
\* without, strcpy_s, which writes the string and its NUL and leaves the bytes
\* after the NUL as an earlier call left them.
SAFE_STRCPY(buf, s, univac) ==
    IF univac THEN s
    ELSE s \o <<NUL>> \o SubSeq(buf, Len(s) + 2, Len(buf))

\* Lines 375-382: the string is copied, then upper-cased in place up to its
\* NUL.
stored_plugboard(buf, s, univac) ==
    LET copied == SAFE_STRCPY(buf, s, univac)
    IN  trim_zeros([i \in 1..Len(copied) |->
                       IF i <= Len(s) THEN to_upper(copied[i]) ELSE copied[i]])

\* ------------------------------------------------------------ input spaces

IsLetterByte(b) == b \in chA..chZ \/ b \in cha..chz

RECURSIVE streams_upto(_, _)
streams_upto(bytes, n) ==
    IF n = 0 THEN {<<>>}
    ELSE LET shorter == streams_upto(bytes, n - 1)
         IN  shorter \cup {Append(s, b) : s \in shorter, b \in bytes}

\* A, B, a and the space
InputBytes == {65, 66, 97, 32}

AAAAA == <<65, 65, 65, 65, 65>>

BDZGO == <<66, 68, 90, 71, 79>>

HELLO_WORLD == <<72, 69, 76, 76, 79, 32, 87, 79, 82, 76, 68>>

ILBDA_AMTAZ == <<73, 76, 66, 68, 65, 32, 65, 77, 84, 65, 90>>

Inputs == streams_upto(InputBytes, MaxInputLen) \cup {AAAAA, HELLO_WORLD, ILBDA_AMTAZ}

\* Arguments of -p: "ADU" "ADV" "ADP" "ADQ" "QEV" "ZZZ" "adq" "Zyv",
\* and the malformed "AB" "ABCD" "A1C" "A C" "" "@BC" "AB[" "`BC" "A{C"
PositionStrings ==
    { <<65, 68, 85>>, <<65, 68, 86>>, <<65, 68, 80>>, <<65, 68, 81>>,
      <<81, 69, 86>>, <<90, 90, 90>>, <<97, 100, 113>>, <<90, 121, 118>>,
      <<65, 66>>, <<65, 66, 67, 68>>, <<65, 49, 67>>, <<65, 32, 67>>, <<>>,
      <<64, 66, 67>>, <<65, 66, 91>>, <<96, 66, 67>>, <<65, 123, 67>> }

LongString == [i \in 1..MAX_PLUGBOARD_LEN |-> chA]

\* Arguments of -b: "AB" "ab  CD" "BA ZQ " "" and the malformed
\* "AB BC" "AA" "A" "A1" "ABC", and one of 256 characters
PlugboardStrings ==
    { <<65, 66>>, <<97, 98, 32, 32, 67, 68>>, <<66, 65, 32, 90, 81, 32>>, <<>>,
      <<65, 66, 32, 66, 67>>, <<65, 65>>, <<65>>, <<65, 49>>, <<65, 66, 67>>,
      LongString }

\* -------------------------------------------------------------------- state

VARIABLES
    UNIVAC,           \* whether the program was built with UNIVAC defined
    pc,               \* where main is: "config", "run", "done", "exit"
    rotors,           \* state->rotors[i].wiring
    notch_positions,  \* state->notch_positions
    positions,        \* state->positions
    plugboard,        \* state->plugboard
    stdin,            \* the bytes the input stream holds
    rd,               \* how many of them getchar has returned
    stdout,           \* the bytes putchar has written
    call,             \* the function main called last, with its argument
    argi,             \* options handled by parse_arguments so far
    entry_positions,  \* state->positions when run_enigma was entered
    pos_trace         \* state->positions after each byte read so far

vars == <<UNIVAC, pc, rotors, notch_positions, positions, plugboard, stdin, rd, stdout,
          call, argi, entry_positions, pos_trace>>

\* main up to the configuration: init_enigma has run.
Init ==
    /\ UNIVAC \in BOOLEAN
    /\ pc = "config"
    /\ rotors = ROTOR_WIRINGS
    /\ notch_positions = NOTCH_POSITIONS_INIT
    /\ positions = [i \in 0..(NUM_ROTORS - 1) |-> 0]
    /\ plugboard = <<>>
    /\ stdin \in Inputs
    /\ rd = 0
    /\ stdout = <<>>
    /\ call = [op |-> "init_enigma", arg |-> <<>>]
    /\ argi = 0
    /\ entry_positions = [i \in 0..(NUM_ROTORS - 1) |-> 0]
    /\ pos_trace = <<>>

\* parse_arguments, option -p: set_rotor_positions(state, s)
SetRotorPositions ==
    \E s \in PositionStrings :
        /\ pc = "config"
        /\ argi < MaxArgs
        /\ call' = [op |-> "set_rotor_positions", arg |-> s]
        /\ argi' = argi + 1
        /\ pc' = IF positions_accepted(s) THEN "config" ELSE "exit"
        /\ positions' = IF positions_accepted(s)
                        THEN stored_positions(positions, s) ELSE positions
        /\ UNCHANGED <<UNIVAC, rotors, notch_positions, plugboard, stdin, rd, stdout,
                       entry_positions, pos_trace>>

\* parse_arguments, option -b: set_plugboard(state, s)
SetPlugboard ==
    \E s \in PlugboardStrings :
        /\ pc = "config"
        /\ argi < MaxArgs
        /\ call' = [op |-> "set_plugboard", arg |-> s]
        /\ argi' = argi + 1
        /\ pc' = IF plugboard_accepted(s) THEN "config" ELSE "exit"
        /\ plugboard' = IF plugboard_accepted(s)
                        THEN stored_plugboard(plugboard, s, UNIVAC) ELSE plugboard
        /\ UNCHANGED <<UNIVAC, rotors, notch_positions, positions, stdin, rd, stdout,
                       entry_positions, pos_trace>>

\* parse_arguments: -h, -s, an unknown option or a missing argument
ParseExit ==
    /\ pc = "config"
    /\ argi < MaxArgs
    /\ call' = [op |-> "print_usage", arg |-> <<>>]
    /\ argi' = argi + 1
    /\ pc' = "exit"
    /\ UNCHANGED <<UNIVAC, rotors, notch_positions, positions, plugboard, stdin, rd,
                   stdout, entry_positions, pos_trace>>

\* main line 51: the configuration returns and run_enigma is entered.
EnterRun ==
    /\ pc = "config"
    /\ pc' = "run"
    /\ call' = [op |-> "run_enigma", arg |-> <<>>]
    /\ argi' = 0
    /\ entry_positions' = positions
    /\ UNCHANGED <<UNIVAC, rotors, notch_positions, positions, plugboard, stdin, rd,
                   stdout, pos_trace>>

\* The loop leaving out the putchar of the non-letter branch: a non-letter
\* byte is read and nothing is written for it
RunEnigmaLoop_drops_non_letters ==
    /\ pc = "run"
    /\ rd < Len(stdin)
    /\ \E r \in {run_enigma_char(stdin[rd + 1], positions, notch_positions,
                                rotors, plugboard)} :
           /\ stdout' = IF IsLetterByte(stdin[rd + 1])
                        THEN Append(stdout, r.out) ELSE stdout
           /\ positions' = r.pos
           /\ pos_trace' = Append(pos_trace, r.pos)
    /\ rd' = rd + 1
    /\ UNCHANGED <<UNIVAC, pc, rotors, notch_positions, plugboard, stdin, call, argi,
                   entry_positions>>

\* run_enigma: getchar returned a byte; one iteration of the loop.
RunEnigmaLoop ==
    /\ pc = "run"
    /\ rd < Len(stdin)
    /\ \E r \in {run_enigma_char(stdin[rd + 1], positions, notch_positions,
                                rotors, plugboard)} :
           /\ stdout' = Append(stdout, r.out)
           /\ positions' = r.pos
           /\ pos_trace' = Append(pos_trace, r.pos)
    /\ rd' = rd + 1
    /\ UNCHANGED <<UNIVAC, pc, rotors, notch_positions, plugboard, stdin, call, argi,
                   entry_positions>>

\* run_enigma: getchar returned EOF; main returns 0.
RunEnigmaEOF ==
    /\ pc = "run"
    /\ rd = Len(stdin)
    /\ pc' = "done"
    /\ UNCHANGED <<UNIVAC, rotors, notch_positions, positions, plugboard, stdin, rd,
                   stdout, call, argi, entry_positions, pos_trace>>

Next ==
    \/ SetRotorPositions
    \/ SetPlugboard
    \/ ParseExit
    \/ EnterRun
    \/ RunEnigmaLoop
    \/ RunEnigmaEOF

Spec == Init /\ [][Next]_vars

\* The program running on: getchar on a finite stream returns its next byte
\* or EOF without waiting, and nothing else in the loop can block, so an
\* iteration that can be taken is taken, and so is the return at EOF.  The
\* options of parse_arguments are not forced: how many there are is the
\* caller's choice.  The first condition is WF_vars(RunEnigmaLoop) with
\* ENABLED <<RunEnigmaLoop>>_vars written out: an iteration can be taken, and
\* changes rd, exactly when the loop stands before an unread byte.
SpecFair ==
    /\ Init
    /\ [][Next]_vars
    /\ ([]<>(~(pc = "run" /\ rd < Len(stdin))) \/ []<><<RunEnigmaLoop>>_vars)
    /\ WF_vars(RunEnigmaEOF)

\* The engine alone: run_enigma entered with any position vector in 0..25
\* (every one is set by some upper-case argument of -p), a plugboard of
\* letter pairs, and one letter, or one of a few short streams, on stdin.
Letters == chA..chZ

\* "", "AB CD"
EnginePlugboards == { <<>>, <<65, 66, 32, 67, 68>> }

\* "AA", "A A", "aB"
EngineStreams ==
    {<<x>> : x \in Letters} \cup { <<65, 65>>, <<65, 32, 65>>, <<97, 66>> }

\* Left rotor positions the engine is started at: A, Q, Z
EngineLeft == {0, 16, 25}

\* Bytes getchar can return that are not letters: NUL, newline, '.', '0',
\* the neighbours of the two letter ranges '@' '[' '`' '{', and 255
EngineNonLetters == {0, 10, 46, 48, 64, 91, 96, 123, 255}

\* The plugboard and the stream of a run of the engine: every plugboard with
\* every short stream, and a non-letter byte followed by the letter A with no
\* plugboard.
EngineCases ==
    (EnginePlugboards \X EngineStreams)
        \cup {<<(<<>>), <<b, chA>>>> : b \in EngineNonLetters}

InitEngine ==
    /\ UNIVAC = FALSE
    /\ pc = "run"
    /\ rotors = ROTOR_WIRINGS
    /\ notch_positions = NOTCH_POSITIONS_INIT
    /\ positions \in {[i \in 0..(NUM_ROTORS - 1) |->
                          CASE i = 0 -> r [] i = 1 -> m [] i = 2 -> l] :
                       r \in 0..(ALPHABET_SIZE - 1), m \in 0..(ALPHABET_SIZE - 1),
                       l \in EngineLeft}
    /\ \E cs \in EngineCases : plugboard = cs[1] /\ stdin = cs[2]
    /\ rd = 0
    /\ stdout = <<>>
    /\ call = [op |-> "run_enigma", arg |-> <<>>]
    /\ argi = 0
    /\ entry_positions = positions
    /\ pos_trace = <<>>

NextEngine ==
    \/ RunEnigmaLoop
    \/ RunEnigmaEOF

SpecEngine == InitEngine /\ [][NextEngine]_vars

\* The substitution pipeline: run_enigma entered with any right and middle
\* position, the left rotor at A or Z, a plugboard of one or two letter pairs
\* or none, and one upper-case letter on stdin.
\* "", "AB", "MZ", "EQ VX"
PipelinePlugboards ==
    { <<>>, <<65, 66>>, <<77, 90>>, <<69, 81, 32, 86, 88>> }

PipelineLeft == {0, 25}

InitPipeline ==
    /\ UNIVAC = FALSE
    /\ pc = "run"
    /\ rotors = ROTOR_WIRINGS
    /\ notch_positions = NOTCH_POSITIONS_INIT
    /\ positions \in {[i \in 0..(NUM_ROTORS - 1) |->
                          CASE i = 0 -> r [] i = 1 -> m [] i = 2 -> l] :
                       r \in 0..(ALPHABET_SIZE - 1), m \in 0..(ALPHABET_SIZE - 1),
                       l \in PipelineLeft}
    /\ plugboard \in PipelinePlugboards
    /\ stdin \in {<<x>> : x \in Letters}
    /\ rd = 0
    /\ stdout = <<>>
    /\ call = [op |-> "run_enigma", arg |-> <<>>]
    /\ argi = 0
    /\ entry_positions = positions
    /\ pos_trace = <<>>

SpecPipeline == InitPipeline /\ [][NextEngine]_vars

\* A long run of the engine: 26*26 letters, all A or all z, read from A A A
\* with no plugboard.
LongRunLen == ALPHABET_SIZE * ALPHABET_SIZE

LongRunStreams == {[i \in 1..LongRunLen |-> b] : b \in {chA, chz}}

InitLongRun ==
    /\ UNIVAC = FALSE
    /\ pc = "run"
    /\ rotors = ROTOR_WIRINGS
    /\ notch_positions = NOTCH_POSITIONS_INIT
    /\ positions = [i \in 0..(NUM_ROTORS - 1) |-> 0]
    /\ plugboard = <<>>
    /\ stdin \in LongRunStreams
    /\ rd = 0
    /\ stdout = <<>>
    /\ call = [op |-> "run_enigma", arg |-> <<>>]
    /\ argi = 0
    /\ entry_positions = positions
    /\ pos_trace = <<>>

SpecLongRun == InitLongRun /\ [][NextEngine]_vars


\* ------------------------------------------------------------------ claims

\* The positions before and after the k-th byte of stdin was processed.
before(k) == IF k = 1 THEN entry_positions ELSE pos_trace[k - 1]

after(k) == pos_trace[k]


\* The C string a buffer holds: its bytes before the first NUL.
RECURSIVE c_string(_)
c_string(buf) ==
    IF buf = <<>> \/ Head(buf) = NUL THEN <<>>
    ELSE <<Head(buf)>> \o c_string(Tail(buf))

\* The string is a list of two-letter tokens of upper-case letters, separated
\* (and possibly followed) by spaces, no letter occurring twice: the format
\* of the usage text, "AB CD EF".
DisjointPairsString(s) ==
    /\ \A i \in 1..Len(s) : s[i] = SPACE \/ is_upper(s[i])
    /\ s # <<>> => s[1] # SPACE
    /\ \A i \in 1..Len(s) :
          (s[i] # SPACE /\ (i = 1 \/ s[i - 1] = SPACE)) =>
              /\ i + 1 <= Len(s)
              /\ s[i + 1] # SPACE
              /\ (i + 2 <= Len(s) => s[i + 2] = SPACE)
    /\ \A i, j \in 1..Len(s) : (i # j /\ s[i] # SPACE) => s[i] # s[j]

DisjointPairs(buf) == DisjointPairsString(c_string(buf))

NoLowerCase(s) == \A i \in 1..Len(s) : ~(s[i] \in cha..chz)

DefaultConfiguration ==
    /\ entry_positions = [i \in 0..(NUM_ROTORS - 1) |-> 0]
    /\ plugboard = <<>>

\* C1: round trip.  With a plugboard of disjoint letter pairs and an input of
\* upper-case letters and non-letter bytes, running run_enigma on what has
\* been written so far, from the positions run_enigma was entered with, gives
\* back the input read so far; every non-letter byte is written unchanged at
\* its own index; and from A A A with no plugboard ILBDA AMTAZ gives back
\* HELLO WORLD.
RoundTrip ==
    (pc \in {"run", "done"} /\ DisjointPairs(plugboard) /\ NoLowerCase(stdin)) =>
        /\ run_enigma(stdout, entry_positions, notch_positions, rotors, plugboard)
             = SubSeq(stdin, 1, rd)
        /\ \A i \in 1..rd : ~is_upper(stdin[i]) => stdout[i] = stdin[i]
        /\ (pc = "done" /\ DefaultConfiguration /\ stdin = ILBDA_AMTAZ)
              => stdout = HELLO_WORLD

\* A finished run of "A B"-like input under -p ADQ and a two-pair plugboard.
RoundTripWitness ==
    /\ pc = "done"
    /\ entry_positions[0] = 16 /\ entry_positions[1] = 3
    /\ c_string(plugboard) = <<65, 66, 32, 32, 67, 68>>
    /\ stdin = <<65, 32>>
    /\ stdout # stdin

\* C2: no fixed point.  With a plugboard of disjoint letter pairs, the byte
\* written for an input letter A-Z is never that letter.
NoFixedPoint ==
    DisjointPairs(plugboard) =>
        \A i \in 1..rd : is_upper(stdin[i]) => stdout[i] # stdin[i]

\* The letter X enciphered from Q E V under the plugboard "AB CD".
NoFixedPointWitness ==
    /\ rd = 1
    /\ stdin = <<88>>
    /\ entry_positions[0] = 21 /\ entry_positions[1] = 4 /\ entry_positions[2] = 16
    /\ plugboard # <<>>
    /\ stdout[1] \in Letters

\* The stepping rule of the specification, with the notch of the rotor each
\* slot houses: rotor III (V, 21) at the right, rotor II (E, 4) in the middle.
ReferenceStep(pos) ==
    [i \in 0..(NUM_ROTORS - 1) |->
        CASE i = 0 -> (pos[0] + 1) % ALPHABET_SIZE
          [] i = 1 -> IF pos[0] = 21 \/ pos[1] = 4
                      THEN (pos[1] + 1) % ALPHABET_SIZE ELSE pos[1]
          [] i = 2 -> IF pos[1] = 4
                      THEN (pos[2] + 1) % ALPHABET_SIZE ELSE pos[2]]

\* C3: every letter steps the rotors as the reference rule does on the
\* positions before the letter (right always; middle iff the right rotor is
\* at V or the middle at E; left iff the middle is at E).
StepMatchesReference ==
    \A k \in 1..rd : IsLetterByte(stdin[k]) => after(k) = ReferenceStep(before(k))

\* C4: from A A A with no plugboard, AAAAA gives BDZGO and HELLO WORLD gives
\* ILBDA AMTAZ, the space written unchanged at index 5 without a step.
KnownAnswers ==
    (pc = "done" /\ DefaultConfiguration) =>
        /\ stdin = AAAAA => stdout = BDZGO
        /\ stdin = HELLO_WORLD =>
              /\ stdout = ILBDA_AMTAZ
              /\ after(6) = before(6)

KnownAnswersWitness ==
    /\ pc = "done"
    /\ DefaultConfiguration
    /\ stdin = HELLO_WORLD
    /\ Len(stdout) = Len(HELLO_WORLD)

\* Whether bytes k and m of stdin are letters with no letter between them.
ConsecutiveLetters(k, m) ==
    /\ k < m
    /\ IsLetterByte(stdin[k])
    /\ IsLetterByte(stdin[m])
    /\ \A j \in (k + 1)..(m - 1) : ~IsLetterByte(stdin[j])

\* C5: double step.  A letter read with the middle rotor at E (4) advances
\* all three rotors by one; when a letter moves the middle rotor onto E the
\* next letter moves it again; and from Q E V one letter leaves the left
\* rotor at R (17).
DoubleStep ==
    /\ \A k \in 1..rd :
          (IsLetterByte(stdin[k]) /\ before(k)[1] = 4) =>
              \A i \in 0..(NUM_ROTORS - 1) :
                  after(k)[i] = (before(k)[i] + 1) % ALPHABET_SIZE
    /\ \A k, m \in 1..rd :
          (ConsecutiveLetters(k, m) /\ before(k)[1] # 4 /\ after(k)[1] = 4) =>
              after(m)[1] = 5
    /\ (rd >= 1 /\ IsLetterByte(stdin[1]) /\ entry_positions[0] = 21
           /\ entry_positions[1] = 4 /\ entry_positions[2] = 16) =>
              after(1)[2] = 17

\* Two letters, a space between them, from middle D: onto E, then on to F.
DoubleStepWitness ==
    /\ rd = 3
    /\ stdin = <<65, 32, 65>>
    /\ entry_positions[1] = 3
    /\ after(1)[1] = 4
    /\ after(3)[1] = 5
    /\ after(3)[2] = (entry_positions[2] + 1) % ALPHABET_SIZE

\* C6: every rotor position is an integer in 0..25 in every state.
PositionsInRange ==
    \A i \in 0..(NUM_ROTORS - 1) : positions[i] \in 0..(ALPHABET_SIZE - 1)

\* C7: after set_rotor_positions accepted a string, the left, middle and
\* right slots hold the alphabet indices of its upper-cased first, second and
\* third characters.
PositionsCaseInsensitive ==
    (pc = "config" /\ call.op = "set_rotor_positions") =>
        /\ positions[2] = idx(ALPHABET, to_upper(call.arg[1]))
        /\ positions[1] = idx(ALPHABET, to_upper(call.arg[2]))
        /\ positions[0] = idx(ALPHABET, to_upper(call.arg[3]))

\* The plugboard strings the specification wants rejected: a byte that is
\* neither a letter nor a space, a token that is not two letters long, a
\* letter occurring twice (in one token or in two), more than 255 characters.
BadPlugboard(s) ==
    \/ \E i \in 1..Len(s) : s[i] # SPACE /\ ~IsLetterByte(s[i])
    \/ \E i \in 1..Len(s) :
          /\ s[i] # SPACE /\ (i = 1 \/ s[i - 1] = SPACE)
          /\ ~(/\ i + 1 <= Len(s)
               /\ s[i + 1] # SPACE
               /\ (i + 2 <= Len(s) => s[i + 2] = SPACE))
    \/ \E i, j \in 1..Len(s) :
          i # j /\ s[i] # SPACE /\ to_upper(s[i]) = to_upper(s[j])
    \/ Len(s) > MAX_PLUGBOARD_LEN - 1

\* C8: set_plugboard called with a bad plugboard string ends the program,
\* and nothing is read or written afterwards.
BadPlugboardRejected ==
    (call.op = "set_plugboard" /\ BadPlugboard(call.arg)) =>
        (pc = "exit" /\ rd = 0 /\ stdout = <<>>)

\* C9: once run_enigma has enciphered a letter, apply_plugboard over the
\* stored plugboard maps letters to letters and is its own inverse.
PlugboardInvolution ==
    (pc \in {"run", "done"} /\ \E k \in 1..rd : IsLetterByte(stdin[k])) =>
        \A x \in Letters :
            /\ apply_plugboard(x, plugboard) \in Letters
            /\ apply_plugboard(apply_plugboard(x, plugboard), plugboard) = x

\* The position strings that are not exactly three letters.
BadPositions(s) == ~(Len(s) = 3 /\ \A i \in 1..Len(s) : IsLetterByte(s[i]))

\* C10: a call of set_rotor_positions with a string that is not exactly three
\* letters ends the program, leaves the stored positions as they were, and
\* happens with nothing read from the input and nothing written; and the
\* ended program takes no further step.
BadPositionsRejected ==
    [][/\ pc # "exit"
       /\ (pc = "config" /\ argi' = argi + 1
             /\ call'.op = "set_rotor_positions" /\ BadPositions(call'.arg)) =>
                (pc' = "exit" /\ positions' = positions /\ rd' = 0
                    /\ stdout' = <<>>)]_vars

\* -p A1C after -p ADV: the program has ended with the positions of ADV.
BadPositionsRejectedWitness ==
    /\ pc = "exit"
    /\ call = [op |-> "set_rotor_positions", arg |-> <<65, 49, 67>>]
    /\ positions[0] = 21 /\ positions[1] = 3 /\ positions[2] = 0
    /\ rd = 0
    /\ stdout = <<>>

\* The bytes of out at the places where in holds a letter.
RECURSIVE at_letters(_, _)
at_letters(in, out) ==
    IF in = <<>> THEN <<>>
    ELSE (IF IsLetterByte(Head(in)) THEN <<Head(out)>> ELSE <<>>)
             \o at_letters(Tail(in), Tail(out))

\* C11: non-letter transparency.  A byte outside A-Z and a-z is written
\* unchanged and leaves the three positions as they were, and the bytes
\* written for the letters are those run_enigma writes for the stream with
\* its non-letter bytes taken out.
NonLetterTransparent ==
    /\ \A k \in 1..rd :
          ~IsLetterByte(stdin[k]) => (stdout[k] = stdin[k] /\ after(k) = before(k))
    /\ at_letters(SubSeq(stdin, 1, rd), stdout)
          = run_enigma(at_letters(SubSeq(stdin, 1, rd), SubSeq(stdin, 1, rd)),
                       entry_positions, notch_positions, rotors, plugboard)

\* '[' then A from right Q, middle E: the bracket passed, the A enciphered
\* after the one double step.
NonLetterTransparentWitness ==
    /\ rd = 2
    /\ stdin = <<91, 65>>
    /\ stdout[1] = 91
    /\ stdout[2] \in Letters \ {chA}
    /\ entry_positions[0] = 16 /\ entry_positions[1] = 4
    /\ after(1) = entry_positions
    /\ after(2)[0] = 17 /\ after(2)[1] = 5

\* The same letter in the other case.
other_case(b) == IF is_upper(b) THEN b + CASE_OFFSET ELSE b - CASE_OFFSET

\* C12: case normalization.  For every letter read by the running loop
\* (returning changes neither stream nor positions), one iteration of
\* run_enigma on the letter in the other case, from the same positions, gives
\* the byte that was written and the positions that were reached; and with a
\* plugboard of disjoint letter pairs the byte written is in A-Z.
CaseNormalized ==
    \A k \in 1..rd :
        (pc = "run" /\ IsLetterByte(stdin[k])) =>
            /\ run_enigma_char(other_case(stdin[k]), before(k), notch_positions,
                               rotors, plugboard)
                  = [out |-> stdout[k], pos |-> after(k)]
            /\ DisjointPairs(plugboard) => is_upper(stdout[k])

\* "aB" enciphered from right Q, middle E under the plugboard "AB CD".
CaseNormalizedWitness ==
    /\ rd = 2
    /\ stdin = <<97, 66>>
    /\ c_string(plugboard) = <<65, 66, 32, 67, 68>>
    /\ entry_positions[0] = 16 /\ entry_positions[1] = 4
    /\ is_upper(stdout[1]) /\ is_upper(stdout[2])
    /\ after(1)[1] = 5 /\ after(2)[0] = 18

\* The (middle, right) pairs the two fast rotors stood at after each of the
\* first n bytes.
FastPairs(n) == {<<after(k)[1], after(k)[0]>> : k \in 1..n}

\* C13 as stated: from A A A the right rotor is back at A after 26 letters,
\* and over 26*26 letters the fast rotors take 26*26 - 25 = 651 distinct
\* (middle, right) pairs.
PeriodicityAsStated ==
    /\ rd >= ALPHABET_SIZE => after(ALPHABET_SIZE)[0] = 0
    /\ rd = LongRunLen =>
          Cardinality(FastPairs(LongRunLen)) = ALPHABET_SIZE * ALPHABET_SIZE - 25

\* C13, amended: from A A A the right rotor is back at A after 26 letters,
\* and over 26*26 letters the fast rotors take 26*25 = 650 distinct
\* (middle, right) pairs; the pair they started at is one of them.
Periodicity ==
    /\ rd >= ALPHABET_SIZE => after(ALPHABET_SIZE)[0] = 0
    /\ rd = LongRunLen =>
          /\ Cardinality(FastPairs(LongRunLen)) = ALPHABET_SIZE * (ALPHABET_SIZE - 1)
          /\ <<entry_positions[1], entry_positions[0]>> \in FastPairs(LongRunLen)

\* The run of 676 lower-case z has returned, the rotors at A B B.
PeriodicityWitness ==
    /\ pc = "done"
    /\ rd = LongRunLen
    /\ stdin[LongRunLen] = chz
    /\ entry_positions = [i \in 0..(NUM_ROTORS - 1) |-> 0]
    /\ positions[0] = 0 /\ positions[1] = 1 /\ positions[2] = 1

\* C14: immutability and single step per letter.  No step taken while
\* run_enigma runs changes a wiring, a notch position or the plugboard; the
\* positions change only in a step that reads a letter; and such a step
\* advances the right rotor by one modulo 26 and each of the middle and left
\* rotors by nothing or by one modulo 26.
ImmutableAndSingleStep ==
    [][pc = "run" =>
          /\ rotors' = rotors
          /\ notch_positions' = notch_positions
          /\ plugboard' = plugboard
          /\ positions' # positions =>
                (rd' = rd + 1 /\ IsLetterByte(stdin[rd + 1]))
          /\ (rd' = rd + 1 /\ IsLetterByte(stdin[rd + 1])) =>
                /\ positions'[0] = (positions[0] + 1) % ALPHABET_SIZE
                /\ \A i \in 1..(NUM_ROTORS - 1) :
                      \/ positions'[i] = positions[i]
                      \/ positions'[i] = (positions[i] + 1) % ALPHABET_SIZE]_vars

\* One letter read after -p ADQ and -b "AB": right Q to R, middle D to E, the
\* left rotor and the tables as they were.
ImmutableAndSingleStepWitness ==
    /\ pc = "run"
    /\ rd = 1
    /\ IsLetterByte(stdin[1])
    /\ entry_positions[0] = 16 /\ entry_positions[1] = 3 /\ entry_positions[2] = 0
    /\ positions[0] = 17 /\ positions[1] = 4 /\ positions[2] = 0
    /\ plugboard = <<65, 66>>
    /\ rotors = ROTOR_WIRINGS
    /\ notch_positions = NOTCH_POSITIONS_INIT

\* The exchange of the letters a and b.
swap(a, b, x) == IF x = a THEN b ELSE IF x = b THEN a ELSE x

\* The byte a plugboard-free run writes for the letter x read at the
\* positions pos.
plugboard_free(x, pos) ==
    run_enigma_char(x, pos, notch_positions, rotors, <<>>).out

\* C15: plugboard symmetry for a single pair.  Under a plugboard of one pair
\* of distinct letters a b, the byte written for the letter x read by the
\* running loop is swap(E(swap(x))), E being what a plugboard-free run writes
\* from the same positions.
SinglePairSymmetry ==
    (/\ pc = "run"
     /\ Len(c_string(plugboard)) = 2
     /\ is_upper(plugboard[1]) /\ is_upper(plugboard[2])
     /\ plugboard[1] # plugboard[2]) =>
        \A k \in 1..rd :
            is_upper(stdin[k]) =>
                stdout[k] = swap(plugboard[1], plugboard[2],
                                 plugboard_free(swap(plugboard[1], plugboard[2],
                                                     stdin[k]),
                                                before(k)))

\* M read from right Q, middle D under the plugboard "MZ": R is written, which
\* the plugboard-free run writes for Z and not for M.
SinglePairSymmetryWitness ==
    /\ pc = "run"
    /\ rd = 1
    /\ stdin = <<77>>
    /\ plugboard = <<77, 90>>
    /\ entry_positions[0] = 16 /\ entry_positions[1] = 3 /\ entry_positions[2] = 0
    /\ stdout = <<82>>
    /\ plugboard_free(90, entry_positions) = 82
    /\ plugboard_free(77, entry_positions) # 82

\* The wirings as permutations of 0..25, and the inverses of the three
\* rotors' permutations.
RefW ==
    [r \in 0..(NUM_ROTOR_WIRINGS - 1) |->
        [x \in 0..(ALPHABET_SIZE - 1) |-> wiring_bytes(ROTOR_WIRINGS[r])[x + 1] - chA]]

RefWinv ==
    [r \in 0..(NUM_ROTORS - 1) |->
        [y \in 0..(ALPHABET_SIZE - 1) |->
            CHOOSE x \in 0..(ALPHABET_SIZE - 1) : RefW[r][x] = y]]

\* fwd_W(p, x) = (W[(x+p) mod 26] - p) mod 26 and
\* rev_W(p, x) = (Winv[(x+p) mod 26] - p) mod 26
Ref_fwd(r, p, x) == (RefW[r][(x + p) % ALPHABET_SIZE] - p) % ALPHABET_SIZE

Ref_rev(r, p, x) == (RefWinv[r][(x + p) % ALPHABET_SIZE] - p) % ALPHABET_SIZE

\* The partner of the letter c in the string s of disjoint pairs, or c.
Ref_plug(s, c) ==
    IF \E i \in 1..Len(s) : s[i] = c
    THEN LET i == CHOOSE j \in 1..Len(s) : s[j] = c
         IN  IF i = 1 \/ s[i - 1] = SPACE THEN s[i + 1] ELSE s[i - 1]
    ELSE c

\* plug(rev_III(rev_II(rev_I(R[fwd_I(fwd_II(fwd_III(plug(x))))])))): rotor
\* III (wiring 2) at the right position, II at the middle, I at the left.
Reference(c, pos, s) ==
    LET x0 == Ref_plug(s, c) - chA
        x1 == Ref_fwd(2, pos[0], x0)
        x2 == Ref_fwd(1, pos[1], x1)
        x3 == Ref_fwd(0, pos[2], x2)
        x4 == RefW[3][x3]
        x5 == Ref_rev(0, pos[2], x4)
        x6 == Ref_rev(1, pos[1], x5)
        x7 == Ref_rev(2, pos[0], x6)
    IN  Ref_plug(s, x7 + chA)

ReverseUndoesForward(p) ==
    \A r \in 0..(NUM_ROTORS - 1) : \A x \in 0..(ALPHABET_SIZE - 1) :
        encode_through_rotor(encode_through_rotor(x, r, p, 0, rotors), r, p, 1, rotors)
            = x

\* C17: fixed-position involution.  With a plugboard of disjoint letter
\* pairs, the substitution pipeline applied, at the positions a letter was
\* enciphered at, to the byte written for it gives the letter back; and at
\* each of the three positions of the state every rotor's reverse path undoes
\* its forward path at every contact (this part reads the positions only and
\* is stated for the states where the letter A was read with no plugboard).
FixedPositionInvolution ==
    /\ (pc = "run" /\ DisjointPairs(plugboard)) =>
          \A k \in 1..rd :
              is_upper(stdin[k]) =>
                  substitute(stdout[k], after(k), rotors, plugboard) = stdin[k]
    /\ (pc = "run" /\ rd = 1 /\ stdin = <<chA>> /\ plugboard = <<>>) =>
          \A i \in 0..(NUM_ROTORS - 1) : ReverseUndoesForward(positions[i])

\* A read from Z Z Z with no plugboard: enciphered at right A, middle Z, and
\* not written back as A.
FixedPositionInvolutionWitness ==
    /\ pc = "run"
    /\ rd = 1
    /\ stdin = <<65>>
    /\ plugboard = <<>>
    /\ entry_positions = [i \in 0..(NUM_ROTORS - 1) |-> 25]
    /\ positions[0] = 0 /\ positions[1] = 25 /\ positions[2] = 25
    /\ stdout[1] \in Letters \ {chA}
    /\ substitute(stdout[1], positions, rotors, plugboard) = chA

\* C18: the plugboard scan stays inside the string.  Once run_enigma has
\* enciphered a letter, the scan pointer of apply_plugboard over the stored
\* plugboard ends, for every letter, at or before the index of the string's
\* NUL terminator.
ScanInsideString ==
    (pc \in {"run", "done"} /\ \E k \in 1..rd : IsLetterByte(stdin[k])) =>
        \A c \in Letters :
            apply_plugboard_end(c, plugboard) <= Len(c_string(plugboard))

\* The positions n calls of step_rotors lead to from pos.
RECURSIVE steps_from(_, _)
steps_from(pos, n) ==
    IF n = 0 THEN pos ELSE steps_from(step_rotors(pos, notch_positions), n - 1)

\* How many letters the stream s holds.
letter_count(s) == Len(at_letters(s, s))

\* C19: the position trajectory is data-independent.  The positions after
\* the bytes read so far are those that as many step_rotors calls as there
\* are letters among them lead to from the positions run_enigma was entered
\* with: a function of the entry positions and the number of letters alone,
\* so two runs that agree on both end at the same positions.
PositionsDataIndependent ==
    pc \in {"run", "done"} =>
        positions = steps_from(entry_positions, letter_count(SubSeq(stdin, 1, rd)))

\* HELLO WORLD read after -p ADQ under the plugboard "AB": ten steps from
\* right Q, middle D, the second of them a double step.
PositionsDataIndependentWitness ==
    /\ pc = "done"
    /\ stdin = HELLO_WORLD
    /\ plugboard = <<65, 66>>
    /\ entry_positions[0] = 16 /\ entry_positions[1] = 3 /\ entry_positions[2] = 0
    /\ positions[0] = 0 /\ positions[1] = 5 /\ positions[2] = 1

\* C20: termination at end-of-stream.  While run_enigma runs and after it
\* returned, as many bytes are written as were read; each step that reads
\* reads one byte and appends one byte to what was written; and a run that
\* was entered returns, with the whole stream read and a byte written for
\* each of its bytes.
Termination ==
    /\ [](pc \in {"run", "done"} => Len(stdout) = rd)
    /\ [][(pc = "run" /\ rd' # rd) =>
              /\ rd' = rd + 1
              /\ Len(stdout') = Len(stdout) + 1
              /\ SubSeq(stdout', 1, Len(stdout)) = stdout]_vars
    /\ (pc = "run") ~> (pc = "done" /\ rd = Len(stdin) /\ Len(stdout) = Len(stdin))

\* "A " read to the end under -p adq and the plugboard "A1", which
\* set_rotor_positions and set_plugboard accept.
TerminationWitness ==
    /\ pc = "done"
    /\ stdin = <<65, 32>>
    /\ rd = 2
    /\ Len(stdout) = 2
    /\ plugboard = <<65, 49>>
    /\ entry_positions[0] = 48

=============================================================================
